---- MODULE Spec2Model ----
(***************************************************************************)
(* Model of skills/skill-improver/scripts/analyze_skill.py: the structural *)
(* analysis of a skill package (parse_frontmatter, extract_markdown_links, *)
(* analyze_skill, format_report).                                          *)
(*                                                                         *)
(* Text is modelled line by line.  SKILL.md is a sequence of lines; a line *)
(* is a record [kind, key, val, words, links, rep]:                        *)
(*   comment  a line beginning with '#'           ("# attribution")        *)
(*   delim    the line "---"                                               *)
(*   delimx   a line beginning with "---" that goes on ("---x")            *)
(*   blank    the empty line                                               *)
(*   entry    a YAML block-mapping entry "key: value"                      *)
(*   item     a YAML block-sequence entry "- x"                            *)
(*   text     prose: `words` whitespace-separated words, among them the    *)
(*            markdown links `links`; `rep` such lines in a row            *)
(*   bad      a line no YAML document can hold ("a: [")                    *)
(*   fence    a code fence "```"                                           *)
(* Strings that the code inspects character by character (the name, the    *)
(* description) are sequences over the character classes                   *)
(*   "a" [a-z0-9]   "A" [A-Z]   "_"   "-"   "n" newline   "." any other    *)
(***************************************************************************)
EXTENDS Integers, Sequences, FiniteSets, TLC

\* ------------------------------------------------------------------ bounds

\* Leading '#' lines before the front matter.
MaxComments == 1
\* Lines between the opening and the closing delimiter that Init enumerates.
MaxBlock == 2
\* Characters of the names Init enumerates in full.
MaxNameLen == 3
\* Body lines Init enumerates for the link checks.
MaxBodyLines == 3
\* Records of the lists handed to format_report on its own.
MaxRecords == 4

\* ------------------------------------------------------- program constants

NAME_MAX == 64
DESC_MIN == 50
DESC_MAX == 1024
LINES_MAX == 500
WORDS_MAX == 5000

ALLOWED == {"name", "description", "license", "allowed-tools", "metadata", "compatibility"}

EXTRANEOUS == {"README.md", "INSTALLATION_GUIDE.md", "QUICK_REFERENCE.md",
               "CHANGELOG.md", "CONTRIBUTING.md", "SETUP.md"}

\* The file names of the model that begin with '.' (str.startswith(".")).
HiddenNames == {".hidden", ".git"}

\* ------------------------------------------------------------------ values

Rep(c, n) == [i \in 1..n |-> c]

\* YAML nodes as PyYAML resolves them: a string (its characters), an integer,
\* a boolean, null, a sequence of n items, and a plain scalar the resolver
\* tags as a timestamp although it is no date ("2001-13-45").
StrV(s) == [t |-> "str", s |-> s, n |-> 0]
IntV(n) == [t |-> "int", s |-> <<>>, n |-> n]
BoolV(b) == [t |-> "bool", s |-> <<>>, n |-> IF b THEN 1 ELSE 0]
NullV == [t |-> "null", s |-> <<>>, n |-> 0]
ListV(n) == [t |-> "list", s |-> <<>>, n |-> n]
BadDateV == [t |-> "baddate", s |-> <<>>, n |-> 0]

\* Mapping keys: a string key, or a key of another YAML type (1, true, null).
StrK(s) == [t |-> "str", s |-> s]
IntK(s) == [t |-> "int", s |-> s]

\* ------------------------------------------------------------------- lines

NoKey == StrK("")
Line(kind, key, val, words, links, rep) ==
    [kind |-> kind, key |-> key, val |-> val, words |-> words, links |-> links, rep |-> rep]
Cmt == Line("comment", NoKey, NullV, 2, <<>>, 1)
Delim == Line("delim", NoKey, NullV, 1, <<>>, 1)
DelimX == Line("delimx", NoKey, NullV, 1, <<>>, 1)
Blank == Line("blank", NoKey, NullV, 0, <<>>, 1)
Entry(k, v) == Line("entry", k, v, 2, <<>>, 1)
Item == Line("item", NoKey, NullV, 2, <<>>, 1)
Bad == Line("bad", NoKey, NullV, 2, <<>>, 1)
Fence == Line("fence", NoKey, NullV, 1, <<>>, 1)
Text(words, links) == Line("text", NoKey, NullV, words, links, 1)
TextRun(rep, words) == Line("text", NoKey, NullV, words, <<>>, rep)

\* str.startswith("#") and str.startswith("---") of a line.
StartsHash(l) == l.kind = "comment"
StartsDashes(l) == l.kind \in {"delim", "delimx"}

\* A link target: its scheme prefix ("rel" when it has none of http://,
\* https://, # and mailto:) and its path components.
Href(scheme, path) == [scheme |-> scheme, path |-> path]

RECURSIVE SumOver(_, _)
SumOver(f, n) == IF n = 0 THEN 0 ELSE f[n] + SumOver(f, n - 1)

\* len(content.splitlines())
LineCount(lines) == SumOver([i \in 1..Len(lines) |-> lines[i].rep], Len(lines))
\* len(text.split())
WordCount(lines) ==
    SumOver([i \in 1..Len(lines) |-> lines[i].rep * lines[i].words], Len(lines))

\* ------------------------------------------------------- parse_frontmatter

\* The loop `while stripped.startswith("#")`: every leading '#' line is dropped.
\* (A last '#' line with no newline after it stays, and is no "---" either.)
RECURSIVE StripComments(_)
StripComments(lines) ==
    IF lines # <<>> /\ StartsHash(lines[1]) THEN StripComments(Tail(lines)) ELSE lines

\* re.match(r"^---\n(.*?)\n---", stripped, re.DOTALL): the first line is
\* exactly "---", and the group ends before the first later line, the second
\* at the earliest, that begins with "---".  0 when there is no match.
MatchClose(stripped) ==
    IF stripped = <<>> \/ stripped[1].kind # "delim" THEN 0
    ELSE LET closers == {j \in 3..Len(stripped) : StartsDashes(stripped[j])}
         IN IF closers = {} THEN 0
            ELSE CHOOSE j \in closers : \A k \in closers : j <= k

\* match.group(1)
MatchGroup(stripped) == SubSeq(stripped, 2, MatchClose(stripped) - 1)

\* yaml.safe_load of the group's text, by the kind of value it loads or the
\* exception it raises:
\*   "dict" (with the entries in order), "list", "scalar", "null",
\*   "YAMLError" (scanner, parser and composer errors),
\*   "ValueError" (the timestamp constructor on a scalar that is no date).
\* A first line "---" is the document start marker; comment and blank lines
\* hold no token; a plain scalar goes on over the lines that follow it until a
\* comment ends it; the document is composed before any value is constructed.
YamlTokens(group) ==
    LET g == IF group # <<>> /\ group[1].kind = "delim" THEN Tail(group) ELSE group
    IN SelectSeq(g, LAMBDA l : l.kind \notin {"blank", "comment"})

IsPlain(l) == l.kind = "delimx" \/ (l.kind = "text" /\ l.links = <<>>)

\* The lines of one plain scalar: no comment line between the first and the last.
Unbroken(group) ==
    LET idx == {i \in 1..Len(group) : group[i].kind \notin {"blank", "comment"}}
    IN \A i \in 1..Len(group) :
          group[i].kind = "comment" =>
              (\A j \in idx : j < i) \/ (\A j \in idx : j > i) \/
              (group[1].kind = "delim" /\ \A j \in idx \ {1} : j > i)

Loaded(kind, entries) == [kind |-> kind, entries |-> entries]

SafeLoad(group) ==
    LET toks == YamlTokens(group)
        kinds == {toks[i].kind : i \in 1..Len(toks)}
    IN IF toks = <<>> THEN Loaded("null", <<>>)
       ELSE IF kinds = {"entry"} THEN
            IF \E i \in 1..Len(toks) : toks[i].val.t = "baddate"
            THEN Loaded("ValueError", <<>>)
            ELSE Loaded("dict", toks)
       ELSE IF kinds = {"item"} THEN Loaded("list", <<>>)
       ELSE IF /\ IsPlain(toks[1])
               /\ \A i \in 1..Len(toks) : IsPlain(toks[i]) \/ toks[i].kind = "item"
               /\ Unbroken(group)
            THEN Loaded("scalar", <<>>)
       ELSE Loaded("YAMLError", <<>>)

\* What parse_frontmatter returns or raises: (fm, err) with None as fmNone /
\* errNone, or the exception that leaves it (exc).
Parsed(fmNone, fm, errNone, err, exc) ==
    [fmNone |-> fmNone, fm |-> fm, errNone |-> errNone, err |-> err, exc |-> exc]

parse_frontmatter(text) ==
    LET stripped == StripComments(text)
    IN IF stripped = <<>> \/ ~StartsDashes(stripped[1])
       THEN Parsed(TRUE, <<>>, FALSE, "No YAML frontmatter found", "")
       ELSE IF MatchClose(stripped) = 0
       THEN Parsed(TRUE, <<>>, FALSE, "Invalid frontmatter format", "")
       ELSE LET loaded == SafeLoad(MatchGroup(stripped))
            IN CASE loaded.kind = "dict" -> Parsed(FALSE, loaded.entries, TRUE, "", "")
                 [] loaded.kind = "YAMLError" -> Parsed(TRUE, <<>>, FALSE, "Invalid YAML", "")
                 [] loaded.kind = "ValueError" -> Parsed(TRUE, <<>>, TRUE, "", "ValueError")
                 [] OTHER -> Parsed(TRUE, <<>>, FALSE, "Frontmatter must be a YAML dictionary", "")

\* dict.keys() and dict.get(key, ""): a later entry of the same key replaces
\* the earlier one.
Keys(dict) == {dict[i].key : i \in 1..Len(dict)}

Get(dict, k) ==
    LET at == {i \in 1..Len(dict) : dict[i].key = StrK(k)}
    IN IF at = {} THEN StrV(<<>>)
       ELSE dict[CHOOSE i \in at : \A j \in at : j <= i].val

\* bool(v): the truth value of a loaded value.
Truthy(v) ==
    CASE v.t = "str" -> v.s # <<>>
      [] v.t = "int" -> v.n # 0
      [] v.t = "bool" -> v.n = 1
      [] v.t = "list" -> v.n > 0
      [] OTHER -> FALSE

\* The decimal digits of a natural number, as characters of class "a".
RECURSIVE Digits(_)
Digits(n) == IF n < 10 THEN <<"a">> ELSE Append(Digits(n \div 10), "a")

\* str(v): a string is itself; 7 -> "7"; True -> "True"; None -> "None";
\* ['x'] -> "['x']" and [] -> "[]".
PyStr(v) ==
    CASE v.t = "str" -> v.s
      [] v.t = "int" -> Digits(v.n)
      [] v.t = "bool" -> IF v.n = 1 THEN <<"A", "a", "a", "a">> ELSE <<"A", "a", "a", "a", "a">>
      [] v.t = "list" -> IF v.n = 0 THEN <<".", ".">> ELSE <<".", ".", "a", ".", ".">>
      [] OTHER -> <<"A", "a", "a", "a">>

\* re.match(r"^[a-z0-9]+(-[a-z0-9]+)*$", s): groups of [a-z0-9] joined by
\* single hyphens; `$` matches at the end and before a newline that ends s.
KebabWhole(s) ==
    /\ s # <<>>
    /\ \A i \in 1..Len(s) : s[i] \in {"a", "-"}
    /\ s[1] = "a" /\ s[Len(s)] = "a"
    /\ \A i \in 1..(Len(s) - 1) : ~(s[i] = "-" /\ s[i + 1] = "-")

KebabMatch(s) ==
    \/ KebabWhole(s)
    \/ s # <<>> /\ s[Len(s)] = "n" /\ KebabWhole(SubSeq(s, 1, Len(s) - 1))


\* ------------------------------------------------ body and markdown links

\* body_match = re.match(r"^---\n.*?\n---\n?(.*)", body_content, re.DOTALL);
\* body = body_match.group(1) if body_match else content.  After a closing
\* line "---x" the group starts inside that line, at its one word "x".
Body(text) ==
    LET body_content == StripComments(text)
        j == MatchClose(body_content)
        rest == SubSeq(body_content, j + 1, Len(body_content))
    IN IF j = 0 THEN text
       ELSE IF body_content[j].kind = "delimx" THEN <<Text(1, <<>>)>> \o rest
       ELSE rest

\* extract_markdown_links: re.sub(r"```.*?```", "", ...) takes out each fence
\* with the next one and what lies between; a last fence with no partner
\* stays, and so does the text after it.  Then the links, in order.  (A link
\* is kept as its href; only lines with rep = 1 carry links.)
RECURSIVE extract_markdown_links(_)
extract_markdown_links(lines) ==
    IF lines = <<>> THEN <<>>
    ELSE IF lines[1].kind = "fence"
    THEN LET later == {k \in 2..Len(lines) : lines[k].kind = "fence"}
         IN IF later = {} THEN extract_markdown_links(Tail(lines))
            ELSE LET k == CHOOSE k \in later : \A m \in later : k <= m
                 IN extract_markdown_links(SubSeq(lines, k + 1, Len(lines)))
    ELSE lines[1].links \o extract_markdown_links(Tail(lines))

\* not href.startswith(("http://", "https://", "#", "mailto:"))
RelativeLinks(links) == SelectSeq(links, LAMBDA h : h.scheme = "rel")

\* ------------------------------------------------------------- file system

\* A package directory: the paths (sequences of names, relative to the
\* package root) of its files and of its directories, and the files the
\* caller may execute (os.access(s, os.X_OK)).
Last(p) == p[Len(p)]

\* An arbitrary but fixed listing order (os.walk, Path.iterdir).
RECURSIVE Listing(_)
Listing(S) ==
    IF S = {} THEN <<>>
    ELSE LET x == CHOOSE x \in S : TRUE IN <<x>> \o Listing(S \ {x})

Exists(d, p) == p \in d.files \cup d.dirs

\* os.walk with the hidden directories pruned and the hidden files skipped.
AllFiles(d) == Listing({p \in d.files : \A i \in 1..Len(p) : p[i] \notin HiddenNames})

\* [f for f in dir.iterdir() if f.is_file() and not f.name.startswith(".")]
DirFiles(d, dir) ==
    Listing({p \in d.files : Len(p) = 2 /\ p[1] = dir /\ p[2] \notin HiddenNames})

Range(q) == {q[i] : i \in 1..Len(q)}

\* ------------------------------------------------------------------ state

VARIABLES
    disk,            \* the package directory
    content,         \* the text of SKILL.md
    pc,              \* where analyze_skill / __main__ stands
    results,         \* analyze_skill's record list
    fm,              \* the parsed front matter
    body,            \* the body of SKILL.md
    relative_links,  \* the hrefs of the body's relative links
    scripts,         \* the script files the loop has yet to visit
    exc,             \* the exception that left analyze_skill, "" if none
    report           \* format_report's lines

vars == <<disk, content, pc, results, fm, body, relative_links, scripts, exc, report>>

\* ----------------------------------------------------------------- records

\* A detail string: its fixed wording, the number and the listed items that
\* are formatted into it.  NoDetail is the empty string.
Detail(msg, n, items) == [msg |-> msg, n |-> n, items |-> items]
NoDetail == Detail("", 0, <<>>)

\* The tuple (section, check, status, detail); a check name is the sequence
\* of the pieces it is formatted from.
Rec(section, check, status, detail) ==
    [section |-> section, check |-> check, status |-> status, detail |-> detail]

\* A record() that inserts at the front instead of appending.
record_Prepend(list, rec) == <<rec>> \o list

\* record(): results.append((section, check, status, detail))
record(list, rec) == Append(list, rec)

\* ------------------------------------------------------------ the checks

SkillMd == <<"SKILL.md">>

MissingRecord == Rec("STRUCTURE", <<"SKILL.md exists">>, "FAIL", Detail("SKILL.md not found", 0, <<>>))

\* unexpected = set(fm.keys()) - ALLOWED
Unexpected(d) == {k \in Keys(d) : ~(k.t = "str" /\ k.s \in ALLOWED)}

\* ', '.join(sorted(unexpected)) raises TypeError when a key is no string
\* (sorted() on keys of mixed types, str.join on any key that is no str).
JoinRaises(keys) == \E k \in keys : k.t # "str"

NameRecord(d) ==
    LET name == Get(d, "name")
        str == PyStr(name)
    IN IF ~Truthy(name)
       THEN Rec("FRONTMATTER", <<"Name present">>, "FAIL", Detail("Missing 'name' field", 0, <<>>))
       ELSE IF ~KebabMatch(str)
       THEN Rec("FRONTMATTER", <<"Name format">>, "FAIL", Detail("is not valid kebab-case", 0, <<name>>))
       ELSE IF Len(str) > NAME_MAX
       THEN Rec("FRONTMATTER", <<"Name length">>, "FAIL", Detail("chars (max 64)", Len(str), <<>>))
       ELSE Rec("FRONTMATTER", <<"Name valid">>, "PASS", Detail("", 0, <<str>>))

DescriptionRecord(d) ==
    LET desc == Get(d, "description")
        desc_len == Len(PyStr(desc))
    IN IF ~Truthy(desc)
       THEN Rec("FRONTMATTER", <<"Description present">>, "FAIL", Detail("Missing 'description' field", 0, <<>>))
       ELSE IF desc_len < DESC_MIN
       THEN Rec("FRONTMATTER", <<"Description length">>, "WARN", Detail("chars (recommend >= 50)", desc_len, <<>>))
       ELSE IF desc_len > DESC_MAX
       THEN Rec("FRONTMATTER", <<"Description length">>, "FAIL", Detail("chars (max 1024)", desc_len, <<>>))
       ELSE Rec("FRONTMATTER", <<"Description length">>, "PASS", Detail("chars", desc_len, <<>>))

LineCountRecord(text) ==
    LET line_count == LineCount(text)
    IN IF line_count > LINES_MAX
       THEN Rec("SIZE", <<"SKILL.md line count">>, "WARN", Detail("lines (recommend <= 500)", line_count, <<>>))
       ELSE Rec("SIZE", <<"SKILL.md line count">>, "PASS", Detail("lines", line_count, <<>>))

WordCountRecord(b) ==
    LET word_count == WordCount(b)
    IN IF word_count > WORDS_MAX
       THEN Rec("SIZE", <<"Body word count">>, "WARN", Detail("words (recommend <= 5000)", word_count, <<>>))
       ELSE Rec("SIZE", <<"Body word count">>, "PASS", Detail("words", word_count, <<>>))

\* dirs_present, listed sorted: the order is a function of the set.
DirectoriesRecord(d) ==
    LET all_files == AllFiles(d)
        dirs_present == {all_files[i][1] : i \in {k \in 1..Len(all_files) : Len(all_files[k]) > 1}}
    IN IF dirs_present # {}
       THEN Rec("FILES", <<"Directories">>, "INFO", Detail("", 0, Listing(dirs_present)))
       ELSE Rec("FILES", <<"Directories">>, "INFO", Detail("none", 0, <<>>))

TotalFilesRecord(d) == Rec("FILES", <<"Total files">>, "INFO", Detail("", Len(AllFiles(d)), <<>>))

ExtraneousRecord(d) ==
    LET found_extraneous == SelectSeq(AllFiles(d), LAMBDA f : Last(f) \in EXTRANEOUS)
    IN IF found_extraneous # <<>>
       THEN Rec("FILES", <<"Extraneous files">>, "WARN", Detail("", 0, found_extraneous))
       ELSE Rec("FILES", <<"Extraneous files">>, "PASS", Detail("none detected", 0, <<>>))

\* broken_links: the hrefs, in order, whose target does not exist.
BrokenLinks(d, rel) == SelectSeq(rel, LAMBDA h : ~Exists(d, h.path))

LinkRecord(d, rel) ==
    LET broken_links == BrokenLinks(d, rel)
        valid_links == Len(rel) - Len(broken_links)
    IN IF rel # <<>>
       THEN IF broken_links # <<>>
            THEN Rec("REFERENCES", <<"Link integrity">>, "FAIL", Detail("Broken", 0, broken_links))
            ELSE Rec("REFERENCES", <<"Link integrity">>, "PASS", Detail("links valid", valid_links, <<Len(rel)>>))
       ELSE Rec("REFERENCES", <<"Link integrity">>, "INFO", Detail("No internal links found", 0, <<>>))

\* href.startswith("references/")
UnderReferences(h) == Len(h.path) >= 2 /\ h.path[1] = "references"

\* An unlinked list that compares whole hrefs only, never base names.
Unlinked_ByPathOnly(d, rel) ==
    LET ref_paths == DirFiles(d, "references")
        ref_files == [i \in 1..Len(ref_paths) |-> Last(ref_paths[i])]
    IN SelectSeq(ref_files, LAMBDA f : <<"references", f>> \notin {h.path : h \in Range(rel)})

\* unlinked: the reference files, in listing order, that are neither the base
\* name of a link under references/ nor, as references/<name>, an href.
Unlinked(d, rel) ==
    LET linked_refs == {h \in Range(rel) : UnderReferences(h)}
        linked_basenames == {Last(h.path) : h \in linked_refs}
        ref_paths == DirFiles(d, "references")
        ref_files == [i \in 1..Len(ref_paths) |-> Last(ref_paths[i])]
    IN SelectSeq(ref_files, LAMBDA f :
           /\ f \notin linked_basenames
           /\ <<"references", f>> \notin {h.path : h \in Range(rel)})

ReferencesRecord(d, rel) ==
    IF <<"references">> \in d.dirs
    THEN LET unlinked == Unlinked(d, rel)
         IN IF unlinked # <<>>
            THEN Rec("REFERENCES", <<"Unlinked reference files">>, "WARN", Detail("", 0, unlinked))
            ELSE Rec("REFERENCES", <<"All references linked">>, "PASS", NoDetail)
    ELSE Rec("REFERENCES", <<"References directory">>, "INFO", Detail("No references/ directory", 0, <<>>))

ScriptRecord(d, s) ==
    IF s \in d.exec
    THEN Rec("SCRIPTS", <<Last(s), " executable">>, "PASS", NoDetail)
    ELSE Rec("SCRIPTS", <<Last(s), " executable">>, "WARN", Detail("Not marked executable", 0, <<>>))

\* ------------------------------------------------------------ format_report

\* A line of the report.  The title line names the package; the summary line
\* holds the three counts.
ReportLine(kind, rec, tally) == [kind |-> kind, rec |-> rec, tally |-> tally]
NoRec == Rec("", <<>>, "", NoDetail)
TitleLine == ReportLine("title", NoRec, <<>>)
BlankLine == ReportLine("blank", NoRec, <<>>)
HeaderLine(section) == ReportLine("header", Rec(section, <<>>, "", NoDetail), <<>>)
CheckLine(rec) == ReportLine("check", rec, <<>>)
SummaryLine(fail, warn, pass) == ReportLine("summary", NoRec, <<fail, warn, pass>>)

\* The loop without `current_section = section`.
RECURSIVE ReportBody_NoUpdate(_, _, _)
ReportBody_NoUpdate(list, i, cur) ==
    IF i > Len(list) THEN <<>>
    ELSE LET section == list[i].section
             head == IF cur # <<section>>
                     THEN (IF cur # <<>> THEN <<BlankLine>> ELSE <<>>) \o <<HeaderLine(section)>>
                     ELSE <<>>
         IN head \o <<CheckLine(list[i])>> \o ReportBody_NoUpdate(list, i + 1, cur)

\* The loop of format_report from record i on; cur is current_section,
\* <<>> for None.
RECURSIVE ReportBody(_, _, _)
ReportBody(list, i, cur) ==
    IF i > Len(list) THEN <<>>
    ELSE LET section == list[i].section
             head == IF cur # <<section>>
                     THEN (IF cur # <<>> THEN <<BlankLine>> ELSE <<>>) \o <<HeaderLine(section)>>
                     ELSE <<>>
         IN head \o <<CheckLine(list[i])>> \o ReportBody(list, i + 1, <<section>>)

Tally(list, status) == Cardinality({i \in 1..Len(list) : list[i].status = status})

format_report(list) ==
    <<TitleLine, BlankLine>> \o ReportBody(list, 1, <<>>)
        \o <<BlankLine, SummaryLine(Tally(list, "FAIL"), Tally(list, "WARN"), Tally(list, "PASS"))>>

\* ------------------------------------------------------------------ inputs

Chars == {"a", "A", "_", "-", "n"}
ShortStrings == UNION {[1..k -> Chars] : k \in 0..MaxNameLen}
LongStrings == {Rep("a", NAME_MAX - 2) \o t : t \in ShortStrings \ {<<>>}}

GoodName == StrV(<<"a", "a", "-", "a", "a", "a", "a", "a">>)
GoodDesc == StrV(Rep("a", DESC_MIN + 10))

OtherValues == {IntV(0), IntV(7), IntV(123), BoolV(TRUE), BoolV(FALSE), NullV, ListV(0), ListV(1)}
NameValues == {StrV(t) : t \in ShortStrings \cup LongStrings} \cup OtherValues
DescLens == {0, 1, DESC_MIN - 1, DESC_MIN, DESC_MIN + 1, DESC_MAX - 1, DESC_MAX, DESC_MAX + 1}
DescValues == {StrV(Rep("a", n)) : n \in DescLens} \cup OtherValues

Prose == <<Text(3, <<>>)>>
Document(entries, b) == <<Delim>> \o entries \o <<Delim>> \o b

\* Documents that differ in how the front matter is delimited and in what
\* the block between the delimiters holds.
BlockLines ==
    {Delim, Blank, Cmt, Item, Bad, Text(1, <<>>), Entry(StrK("name"), GoodName),
     Entry(IntK("1"), GoodName), Entry(StrK("license"), BadDateV)}
Blocks == UNION {[1..k -> BlockLines] : k \in 0..MaxBlock}
Ends == {<<>>, <<Delim>>, <<DelimX>>}
StructureDocs ==
    {Rep(Cmt, c) \o open \o block \o close \o Prose :
        c \in 0..MaxComments, open \in Ends, block \in Blocks, close \in Ends}

\* Documents that differ in the front matter's fields.
FieldDocs ==
    {Document(<<Entry(StrK("name"), v), Entry(StrK("description"), GoodDesc)>>, Prose) : v \in NameValues}
    \cup {Document(<<Entry(StrK("name"), GoodName), Entry(StrK("description"), v)>>, Prose) : v \in DescValues}
    \cup {Document(<<Entry(StrK("name"), GoodName)>>, Prose),
          Document(<<Entry(StrK("description"), GoodDesc)>>, Prose),
          Document(<<Entry(StrK("name"), GoodName), Entry(StrK("name"), IntV(0)),
                     Entry(StrK("description"), GoodDesc)>>, Prose),
          Document(<<Entry(StrK("name"), GoodName), Entry(StrK("description"), GoodDesc),
                     Entry(StrK("author"), GoodName), Entry(StrK("license"), GoodName)>>, Prose)}

\* Documents around the two size limits, with and without front matter.
Heads == {<<>>, <<Cmt>>, Document(<<Entry(StrK("name"), GoodName)>>, <<>>),
          <<Cmt>> \o Document(<<Item>>, <<>>), <<Delim, Bad, DelimX>>}
SizeDocs ==
    {head \o <<TextRun(lines, 1), Text(WORDS_MAX - lines + extra, <<>>)>> :
        head \in Heads, lines \in (LINES_MAX - 5)..LINES_MAX, extra \in (0 - 3)..1}

\* Documents that differ in the links of the body.
Hrefs ==
    {Href("rel", <<"references", "x.md">>), Href("rel", <<"references", "y.md">>),
     Href("rel", <<"references", "sub", "x.md">>), Href("https", <<"example.org">>)}
BodyLines == {Fence} \cup {Text(1, <<h>>) : h \in Hrefs}
Bodies == UNION {[1..k -> BodyLines] : k \in 0..MaxBodyLines}
LinkDocs ==
    {Document(<<Entry(StrK("name"), GoodName), Entry(StrK("description"), GoodDesc)>>, b) : b \in Bodies}

\* Package directories.
Disk(files, dirs, exec) == [files |-> files, dirs |-> dirs, exec |-> exec]
Plain == Disk({SkillMd}, {}, {})
RefDisks ==
    {Plain,
     Disk({SkillMd}, {<<"references">>}, {}),
     Disk({SkillMd, <<"references", "x.md">>}, {<<"references">>}, {}),
     Disk({SkillMd, <<"references", "x.md">>, <<"references", "y.md">>, <<"references", ".hidden">>},
          {<<"references">>}, {}),
     Disk({SkillMd, <<"references", "x.md">>, <<"references", "sub", "x.md">>},
          {<<"references">>, <<"references", "sub">>}, {})}
OtherDisks ==
    {Disk({SkillMd, <<"scripts", "run.sh">>}, {<<"scripts">>}, {<<"scripts", "run.sh">>}),
     Disk({SkillMd, <<"README.md">>, <<"scripts", "run.sh">>, <<"scripts", "tool.py">>, <<"scripts", ".hidden">>},
          {<<"scripts">>}, {<<"scripts", "tool.py">>}),
     Disk({SkillMd, <<"docs", "CHANGELOG.md">>, <<".git", "config">>}, {<<"docs">>, <<".git">>, <<"scripts">>}, {})}
BareDisks ==
    {Disk({}, {}, {}),
     Disk({<<"README.md">>, <<"references", "x.md">>}, {<<"references">>}, {})}

Inputs ==
    {<<Plain, doc>> : doc \in StructureDocs \cup FieldDocs \cup SizeDocs}
    \cup (RefDisks \X LinkDocs)
    \cup {<<d, Document(<<Entry(StrK("name"), GoodName), Entry(StrK("description"), GoodDesc)>>, Prose)>> :
             d \in OtherDisks}
    \cup {<<d, <<>> >> : d \in BareDisks}

\* ------------------------------------------------------------ analyze_skill

Init ==
    /\ \E in \in Inputs : disk = in[1] /\ content = in[2]
    /\ pc = "start"
    /\ results = <<>>
    /\ fm = <<>>
    /\ body = <<>>
    /\ relative_links = <<>>
    /\ scripts = <<>>
    /\ exc = ""
    /\ report = <<>>

Goto(next) ==
    /\ pc' = next
    /\ UNCHANGED <<disk, content, exc, report>>

\* The existence check without its `return results`.
CheckSkillMd_NoReturn ==
    /\ pc = "start"
    /\ IF ~Exists(disk, SkillMd)
       THEN results' = record(results, MissingRecord)
       ELSE results' = record(results, Rec("STRUCTURE", <<"SKILL.md exists">>, "PASS", NoDetail))
    /\ Goto("frontmatter")
    /\ UNCHANGED <<fm, body, relative_links, scripts>>

\* skill_md.exists(): without SKILL.md the one record, and return.
CheckSkillMd ==
    /\ pc = "start"
    /\ IF ~Exists(disk, SkillMd)
       THEN results' = record(results, MissingRecord) /\ Goto("returned")
       ELSE /\ results' = record(results, Rec("STRUCTURE", <<"SKILL.md exists">>, "PASS", NoDetail))
            /\ Goto("frontmatter")
    /\ UNCHANGED <<fm, body, relative_links, scripts>>

\* fm, err = parse_frontmatter(content): an exception leaves analyze_skill.
Frontmatter ==
    /\ pc = "frontmatter"
    /\ LET parsed == parse_frontmatter(content)
       IN IF parsed.exc # ""
          THEN /\ pc' = "raised" /\ exc' = parsed.exc
               /\ UNCHANGED <<disk, content, report, results, fm>>
          ELSE IF ~parsed.errNone /\ parsed.err # ""
          THEN /\ results' = record(results, Rec("FRONTMATTER", <<"Valid frontmatter">>, "FAIL",
                                                  Detail(parsed.err, 0, <<>>)))
               /\ fm' = fm
               /\ Goto("line_count")
          ELSE /\ results' = record(results, Rec("FRONTMATTER", <<"Valid frontmatter">>, "PASS", NoDetail))
               /\ fm' = parsed.fm
               /\ Goto("keys")
    /\ UNCHANGED <<body, relative_links, scripts>>

\* The key check: the detail of the WARN is formatted before it is recorded.
UnexpectedKeys ==
    /\ pc = "keys"
    /\ LET unexpected == Unexpected(fm)
       IN IF unexpected # {}
          THEN IF JoinRaises(unexpected)
               THEN /\ pc' = "raised" /\ exc' = "TypeError"
                    /\ UNCHANGED <<disk, content, report, results>>
               ELSE /\ results' = record(results, Rec("FRONTMATTER", <<"No unexpected keys">>, "WARN",
                                                       Detail("Unexpected", 0, Listing(unexpected))))
                    /\ Goto("name")
          ELSE /\ results' = record(results, Rec("FRONTMATTER", <<"No unexpected keys">>, "PASS", NoDetail))
               /\ Goto("name")
    /\ UNCHANGED <<fm, body, relative_links, scripts>>

Name ==
    /\ pc = "name"
    /\ results' = record(results, NameRecord(fm))
    /\ Goto("description")
    /\ UNCHANGED <<fm, body, relative_links, scripts>>

Description ==
    /\ pc = "description"
    /\ results' = record(results, DescriptionRecord(fm))
    /\ Goto("line_count")
    /\ UNCHANGED <<fm, body, relative_links, scripts>>

LineCountCheck ==
    /\ pc = "line_count"
    /\ results' = record(results, LineCountRecord(content))
    /\ Goto("word_count")
    /\ UNCHANGED <<fm, body, relative_links, scripts>>

BodyWordCount ==
    /\ pc = "word_count"
    /\ body' = Body(content)
    /\ results' = record(results, WordCountRecord(body'))
    /\ Goto("directories")
    /\ UNCHANGED <<fm, relative_links, scripts>>

Directories ==
    /\ pc = "directories"
    /\ results' = record(results, DirectoriesRecord(disk))
    /\ Goto("total_files")
    /\ UNCHANGED <<fm, body, relative_links, scripts>>

TotalFiles ==
    /\ pc = "total_files"
    /\ results' = record(results, TotalFilesRecord(disk))
    /\ Goto("extraneous")
    /\ UNCHANGED <<fm, body, relative_links, scripts>>

ExtraneousFiles ==
    /\ pc = "extraneous"
    /\ results' = record(results, ExtraneousRecord(disk))
    /\ Goto("links")
    /\ UNCHANGED <<fm, body, relative_links, scripts>>

LinkIntegrity ==
    /\ pc = "links"
    /\ relative_links' = RelativeLinks(extract_markdown_links(body))
    /\ results' = record(results, LinkRecord(disk, relative_links'))
    /\ Goto("references")
    /\ UNCHANGED <<fm, body, scripts>>

References ==
    /\ pc = "references"
    /\ results' = record(results, ReferencesRecord(disk, relative_links))
    /\ Goto("scripts")
    /\ UNCHANGED <<fm, body, relative_links, scripts>>

ScriptsFound ==
    /\ pc = "scripts"
    /\ IF <<"scripts">> \in disk.dirs
       THEN /\ scripts' = DirFiles(disk, "scripts")
            /\ results' = record(results, Rec("SCRIPTS", <<"Scripts found">>, "INFO",
                                               Detail("", Len(scripts'), <<>>)))
            /\ Goto("script_loop")
       ELSE /\ scripts' = scripts
            /\ results' = record(results, Rec("SCRIPTS", <<"Scripts directory">>, "INFO",
                                               Detail("No scripts/ directory", 0, <<>>)))
            /\ Goto("returned")
    /\ UNCHANGED <<fm, body, relative_links>>

\* for s in scripts: one record per script.
ScriptLoop ==
    /\ pc = "script_loop"
    /\ scripts # <<>>
    /\ results' = record(results, ScriptRecord(disk, Head(scripts)))
    /\ scripts' = Tail(scripts)
    /\ UNCHANGED <<pc, disk, content, exc, report, fm, body, relative_links>>

ScriptsDone ==
    /\ pc = "script_loop"
    /\ scripts = <<>>
    /\ pc' = "returned"
    /\ UNCHANGED <<disk, content, exc, report, results, fm, body, relative_links, scripts>>

\* __main__: print(format_report(skill_dir, results))
Report ==
    /\ pc = "returned"
    /\ report' = format_report(results)
    /\ pc' = "reported"
    /\ UNCHANGED <<disk, content, exc, results, fm, body, relative_links, scripts>>

Next ==
    \/ CheckSkillMd
    \/ Frontmatter
    \/ UnexpectedKeys
    \/ Name
    \/ Description
    \/ LineCountCheck
    \/ BodyWordCount
    \/ Directories
    \/ TotalFiles
    \/ ExtraneousFiles
    \/ LinkIntegrity
    \/ References
    \/ ScriptsFound
    \/ ScriptLoop
    \/ ScriptsDone
    \/ Report

Spec == Init /\ [][Next]_vars

\* format_report on its own, over every list of at most MaxRecords records
\* of three sections.
ReportRecs ==
    {Rec(section, <<"check">>, status, NoDetail) :
        section \in {"SIZE", "FILES", "REFERENCES"}, status \in {"PASS", "WARN"}}
RecordLists == UNION {[1..k -> ReportRecs] : k \in 0..MaxRecords}

InitReport ==
    /\ disk = Plain
    /\ content = <<>>
    /\ pc = "returned"
    /\ results \in RecordLists
    /\ fm = <<>>
    /\ body = <<>>
    /\ relative_links = <<>>
    /\ scripts = <<>>
    /\ exc = ""
    /\ report = <<>>

NextReport == Report

SpecReport == InitReport /\ [][NextReport]_vars

\* ------------------------------------------------------------------ claims

HasSkillMd == Exists(disk, SkillMd)
Returned == pc \in {"returned", "reported"}
Ended == Returned \/ pc = "raised"

\* The records of the list whose check name is one of `names`; the one such
\* record, when there is exactly one.
Named(list, names) == {i \in 1..Len(list) : list[i].check \in {<<n>> : n \in names}}
The(list, names) == list[CHOOSE i \in Named(list, names) : TRUE]
One(list, names) == Cardinality(Named(list, names)) = 1

MappingParsed ==
    Named(results, {"Valid frontmatter"}) # {} /\ The(results, {"Valid frontmatter"}).status = "PASS"

\* A value that is missing or empty: no entry, null, "" or [].
IsEmpty(v) == v.t = "null" \/ (v.t = "str" /\ v.s = <<>>) \/ (v.t = "list" /\ v.n = 0)

\* C1: without SKILL.md analyze_skill records (STRUCTURE, "SKILL.md exists",
\* FAIL, "SKILL.md not found") and returns at once: no other check runs, the
\* list it returns is that one record, and the report's summary counts
\* 1 FAIL, 0 WARN, 0 PASS.
C1_MissingSkillMd ==
    ~HasSkillMd =>
        /\ pc \in {"start", "returned", "reported"}
        /\ pc = "start" => results = <<>>
        /\ Returned => results = <<MissingRecord>>
        /\ pc = "reported" => report[Len(report)] = SummaryLine(1, 0, 0)

C1_Witness == ~HasSkillMd /\ pc = "reported" /\ disk.files # {}

NextDashes(lines) ==
    LET later == {k \in 2..Len(lines) : StartsDashes(lines[k])}
    IN IF later = {} THEN 0 ELSE CHOOSE k \in later : \A m \in later : k <= m

HasBlock(text) ==
    LET rest == StripComments(text)
    IN rest # <<>> /\ rest[1].kind = "delim" /\ NextDashes(rest) # 0

BlockLoads(text) ==
    LET rest == StripComments(text)
    IN SafeLoad(SubSeq(rest, 2, NextDashes(rest) - 1)).kind

\* C2: parse_frontmatter never raises and returns either (mapping, no error)
\* or (no mapping, a non-empty error); it returns a mapping exactly when the
\* text after the leading '#' lines starts with a "---" line, a later "---"
\* line closes the block, and the text between the first "---" line and the
\* next one loads as a mapping; a block that loads as a scalar, a list or
\* nothing gives "Frontmatter must be a YAML dictionary", and a syntax error
\* gives an error string.
C2_ParseFrontmatter ==
    /\ ~(pc = "raised" /\ exc = "ValueError")
    /\ (pc = "reported" /\ HasSkillMd) =>
          LET parsed == parse_frontmatter(content)
          IN /\ \/ ~parsed.fmNone /\ parsed.errNone
                \/ parsed.fmNone /\ ~parsed.errNone /\ parsed.err # ""
             /\ ~parsed.fmNone <=> (HasBlock(content) /\ BlockLoads(content) = "dict")
             /\ (HasBlock(content) /\ BlockLoads(content) \in {"scalar", "list", "null"})
                    => parsed.err = "Frontmatter must be a YAML dictionary"
             /\ (HasBlock(content) /\ BlockLoads(content) = "YAMLError")
                    => ~parsed.errNone /\ parsed.err # ""

NameChecks == {"Name present", "Name format", "Name length", "Name valid"}

NotKebab(str) ==
    \/ \E i \in 1..Len(str) : str[i] \in {"A", "_"}
    \/ \E i \in 1..(Len(str) - 1) : str[i] = "-" /\ str[i + 1] = "-"
    \/ str # <<>> /\ (str[1] = "-" \/ str[Len(str)] = "-")

\* C3: whenever the front matter is a mapping, the run records exactly one
\* name record, in FRONTMATTER: FAIL "Missing 'name' field" for a missing or
\* empty name, else FAIL for a name that does not match the pattern, else FAIL
\* with the length for a name of more than 64 characters, else PASS with the
\* name; so a name that matches and has at most 64 characters passes, and one
\* with an upper-case letter, an underscore, a doubled hyphen or a hyphen at
\* either end fails.
C3_NameRecord ==
    (Ended /\ HasSkillMd /\ MappingParsed) =>
        /\ One(results, NameChecks)
        /\ LET rec == The(results, NameChecks)
               name == Get(fm, "name")
               str == PyStr(name)
           IN /\ rec.section = "FRONTMATTER"
              /\ IF IsEmpty(name)
                 THEN rec.status = "FAIL" /\ rec.detail.msg = "Missing 'name' field"
                 ELSE IF ~KebabMatch(str) THEN rec.status = "FAIL"
                 ELSE IF Len(str) > NAME_MAX THEN rec.status = "FAIL" /\ rec.detail.n = Len(str)
                 ELSE rec.status = "PASS" /\ rec.detail.items = <<str>>
              /\ (~IsEmpty(name) /\ NotKebab(str)) => rec.status = "FAIL"

DescriptionChecks == {"Description present", "Description length"}

\* C4: whenever the front matter is a mapping, the run records exactly one
\* description record, whose status depends on the description's length d
\* alone: FAIL for d = 0 (missing or empty), WARN for 0 < d < 50, PASS for
\* 50 <= d <= 1024, FAIL for d > 1024.
C4_DescriptionRecord ==
    (Ended /\ HasSkillMd /\ MappingParsed) =>
        /\ One(results, DescriptionChecks)
        /\ LET desc == Get(fm, "description")
               d == IF IsEmpty(desc) THEN 0 ELSE Len(PyStr(desc))
           IN The(results, DescriptionChecks).status =
                  (IF d = 0 THEN "FAIL"
                   ELSE IF d < DESC_MIN THEN "WARN"
                   ELSE IF d <= DESC_MAX THEN "PASS"
                   ELSE "FAIL")

RECURSIVE Distinct(_)
Distinct(q) ==
    IF q = <<>> THEN <<>>
    ELSE LET front == Distinct(SubSeq(q, 1, Len(q) - 1))
         IN IF q[Len(q)] \in Range(front) THEN front ELSE Append(front, q[Len(q)])

\* C5: every run with SKILL.md present records exactly one (REFERENCES,
\* "Link integrity") record over the relative links of the body outside
\* fenced code: INFO with none, PASS "<valid>/<total> links valid" with
\* valid = total when all resolve, and FAIL listing every broken href in the
\* order of first appearance when one does not.
C5_LinkIntegrity ==
    (Ended /\ HasSkillMd) =>
        /\ One(results, {"Link integrity"})
        /\ LET rec == The(results, {"Link integrity"})
               rel == RelativeLinks(extract_markdown_links(Body(content)))
               broken == SelectSeq(rel, LAMBDA h : h.path \notin disk.files \cup disk.dirs)
           IN /\ rec.section = "REFERENCES"
              /\ IF rel = <<>> THEN rec.status = "INFO"
                 ELSE IF broken = <<>>
                 THEN rec.status = "PASS" /\ rec.detail.n = Len(rel) /\ rec.detail.items = <<Len(rel)>>
                 ELSE rec.status = "FAIL" /\ Distinct(rec.detail.items) = Distinct(broken)

RefNames ==
    {p[2] : p \in {q \in disk.files : Len(q) = 2 /\ q[1] = "references" /\ q[2] \notin HiddenNames}}

LinkedAs(f) == Href("rel", <<"references", f>>) \in Range(relative_links)

\* A link names the file: by its base name under references/, or as
\* references/<name>.
SpecLinked(f) ==
    \E h \in Range(relative_links) :
        \/ Len(h.path) >= 2 /\ h.path[1] = "references" /\ h.path[Len(h.path)] = f
        \/ h.path = <<"references", f>>

UnlinkedWarns == Named(results, {"Unlinked reference files"})

\* How often the "Unlinked reference files" records list the file.
Listed(f) ==
    Cardinality({ik \in UnlinkedWarns \X (1..Cardinality(RefNames)) :
                    /\ ik[2] <= Len(results[ik[1]].detail.items)
                    /\ results[ik[1]].detail.items[ik[2]] = f})

AfterReferences == pc \in {"scripts", "script_loop", "returned", "reported"} /\ HasSkillMd

C7_NeverStops ==
    HasSkillMd =>
        /\ pc # "raised"
        /\ Returned =>
              /\ One(results, {"SKILL.md line count"})
              /\ One(results, {"Body word count"})
              /\ One(results, {"Directories"})
              /\ One(results, {"Total files"})
              /\ One(results, {"Extraneous files"})
              /\ One(results, {"Link integrity"})
              /\ One(results, {"Unlinked reference files", "All references linked", "References directory"})
              /\ One(results, {"Scripts found", "Scripts directory"})

\* C8: the two SIZE records are recorded whether or not the front matter is
\* valid and are never FAIL: "SKILL.md line count" is WARN exactly above 500
\* lines, "Body word count" exactly above 5000 words of the body (the text
\* after the leading comment lines and the front-matter block, or the whole
\* document when there is no block).
C8_SizeRecords ==
    (Ended /\ HasSkillMd) =>
        /\ One(results, {"SKILL.md line count"})
        /\ One(results, {"Body word count"})
        /\ The(results, {"SKILL.md line count"}).status =
               (IF LineCount(content) > LINES_MAX THEN "WARN" ELSE "PASS")
        /\ The(results, {"Body word count"}).status =
               (IF WordCount(Body(content)) > WORDS_MAX THEN "WARN" ELSE "PASS")

\* The sections of the list, each once, in the order of first occurrence.
RECURSIVE FirstSeen(_)
FirstSeen(list) ==
    IF list = <<>> THEN <<>>
    ELSE LET front == FirstSeen(SubSeq(list, 1, Len(list) - 1))
             section == list[Len(list)].section
         IN IF section \in Range(front) THEN front ELSE Append(front, section)

\* The sections of the list with each run of equal neighbours taken once.
RECURSIVE Runs(_)
Runs(list) ==
    IF list = <<>> THEN <<>>
    ELSE LET front == Runs(SubSeq(list, 1, Len(list) - 1))
             section == list[Len(list)].section
         IN IF Len(list) > 1 /\ list[Len(list) - 1].section = section THEN front
            ELSE Append(front, section)

Contiguous(list) ==
    \A i, j, k \in 1..Len(list) :
        (i < j /\ j < k /\ list[i].section = list[k].section) => list[j].section = list[i].section

OfKind(rep, kind) == SelectSeq(rep, LAMBDA l : l.kind = kind)
HeaderSections(rep) == [i \in 1..Len(OfKind(rep, "header")) |-> OfKind(rep, "header")[i].rec.section]
CheckRecords(rep) == [i \in 1..Len(OfKind(rep, "check")) |-> OfKind(rep, "check")[i].rec]

UnderOwnHeader(rep) ==
    \A k \in 1..Len(rep) :
        rep[k].kind = "check" =>
            LET above == {h \in 1..k : rep[h].kind = "header"}
            IN /\ above # {}
               /\ rep[CHOOSE h \in above : \A g \in above : g <= h].rec.section = rep[k].rec.section

SectionRank(section) ==
    CASE section = "STRUCTURE" -> 1
      [] section = "FRONTMATTER" -> 2
      [] section = "SIZE" -> 3
      [] section = "FILES" -> 4
      [] section = "REFERENCES" -> 5
      [] section = "SCRIPTS" -> 6
      [] OTHER -> 0

FirstIsStructure(list) ==
    list # <<>> => list[1].section = "STRUCTURE" /\ list[1].check = <<"SKILL.md exists">>

InOrder(list) ==
    \A i, j \in 1..Len(list) :
        i < j => SectionRank(list[i].section) <= SectionRank(list[j].section)

AppendsOne ==
    \/ results' = results
    \/ Len(results') = Len(results) + 1 /\ SubSeq(results', 1, Len(results)) = results

\* C10: a step of the run either leaves the record list alone or appends one
\* record at its end; the first record is the (STRUCTURE, "SKILL.md exists")
\* record; and the sections come in the order STRUCTURE, FRONTMATTER, SIZE,
\* FILES, REFERENCES, SCRIPTS, so that none comes back after another.
C10_AppendOnly == [][AppendsOne /\ FirstIsStructure(results') /\ InOrder(results')]_vars

C10_Witness ==
    /\ pc = "returned" /\ fm # <<>> /\ Len(results) >= 13
    /\ {results[i].section : i \in 1..Len(results)} =
           {"STRUCTURE", "FRONTMATTER", "SIZE", "FILES", "REFERENCES", "SCRIPTS"}

====
